---- MODULE Spec2Model ----
(***************************************************************************)
(* Expense-Tracker backend: the Express route handlers of src/server.js    *)
(* (latest variant) and src/Server.js (earlier variant), with the hosted   *)
(* store (tables users, expenses) and the hosted classifier as the         *)
(* environment.  The synchronous part of a handler (auth included) is one  *)
(* step and every await is a step of its own, so concurrent requests       *)
(* interleave at the awaits as they do on the Node event loop.  A request  *)
(* waiting at an await occupies a slot; a response is held in res for one  *)
(* state and delivered before any other step: delivery touches nothing     *)
(* the server or the store reads.                                          *)
(***************************************************************************)
EXTENDS Integers, Sequences, FiniteSets, TLC

VARIABLES
    variant,      \* which of the two source files is deployed
    globalCrypto, \* whether the runtime defines a global `crypto`
    users,        \* store table users
    expenses,     \* store table expenses
    nextId,       \* store: next expenses.id
    nextUuid,     \* number of UUIDs drawn from crypto.randomUUID so far
    issued,       \* tokens that signup responses have handed to clients
    req,          \* the requests whose handler is waiting at an await
    res,          \* the response being sent, Idle when there is none
    started       \* number of requests received so far

vars == <<variant, globalCrypto, users, expenses, nextId, nextUuid, issued, req, res, started>>

----------------------------------------------------------------------------
(* Bounds *)

MaxUsers == 2
MaxExpenses == 2
MaxClock == 2
MaxRequests == 4

Variants == {"server", "Server"}

\* two requests can be in flight at once
Slots == {"r1", "r2"}

----------------------------------------------------------------------------
(* Values of request bodies.  A text is a sequence of characters, so that  *)
(* String.prototype.trim is computed and not assumed.                      *)

undefinedText == <<"undefined">>
emptyText == <<>>
Food == <<"F", "o", "o", "d">>
Bills == <<"B", "i", "l", "l", "s">>
Other == <<"O", "t", "h", "e", "r">>
PaddedFood == <<" ">> \o Food \o <<"\n">>

WhiteSpace == {" ", "\n", "\t"}

undefinedId == "undefined"
emptyId == ""

Emails == {"a@x.com", "b@x.com"}
Amounts == {50}
Descriptions == {"pizza"}
ClassifierTexts == {Food, PaddedFood}

Uuid(n) == "u" \o ToString(n)
UserIds == {Uuid(n) : n \in 1..MaxUsers}

\* the category and user_id fields a client may send to POST /add-expense:
\* neither, both empty, or a category with each user id
ManualFields ==
    {[category |-> undefinedText, user_id |-> undefinedId],
     [category |-> emptyText, user_id |-> emptyId]}
    \cup {[category |-> Bills, user_id |-> u] : u \in UserIds}

\* String.prototype.trim
RECURSIVE TrimStart(_)
TrimStart(s) ==
    IF s # <<>> /\ Head(s) \in WhiteSpace THEN TrimStart(Tail(s)) ELSE s

RECURSIVE TrimEnd(_)
TrimEnd(s) ==
    IF s # <<>> /\ s[Len(s)] \in WhiteSpace
    THEN TrimEnd(SubSeq(s, 1, Len(s) - 1))
    ELSE s

trim(s) == TrimEnd(TrimStart(s))

\* JavaScript truthiness of a body field, as `a || b` tests it
TruthyText(t) == t \notin {undefinedText, emptyText}
TruthyId(u) == u \notin {undefinedId, emptyId}

----------------------------------------------------------------------------
(* Tokens.  A word of the Authorization header is either a JWT, a payload  *)
(* with a signature over a payload under a key, or text that is no JWT.    *)

JWT_SECRET == "secret"
OtherSecret == "other-secret"

NoPayload == [id |-> "", email |-> ""]

\* text that does not parse as a JWT
Text(t) == [payload |-> NoPayload, sig |-> [over |-> NoPayload, key |-> t]]
Bearer == Text("Bearer")
EmptyWord == Text("")
Garbage == Text("abc.def")
NoToken == Text("undefined")

\* jwt.sign(payload, secret)
sign(payload, secret) ==
    [payload |-> payload, sig |-> [over |-> payload, key |-> secret]]

\* jwt.verify(token, secret): TRUE iff it returns, FALSE iff it throws
verifies(token, secret) ==
    /\ token.payload # NoPayload
    /\ token.sig = [over |-> token.payload, key |-> secret]

\* the value jwt.verify returns when it does not throw
verify(token, secret) == token.payload

\* a token whose payload was replaced after signing
Tamper(token, payload) == [payload |-> payload, sig |-> token.sig]

\* req.headers.authorization?.split(" ")[1]
HeaderToken(hdr) == IF Len(hdr) >= 2 THEN hdr[2] ELSE NoToken

\* !token
Falsy(token) == token \in {NoToken, EmptyWord}

\* what a client can put in the header: nothing, a scheme alone, a scheme
\* and an empty word, or a scheme and a token: one it was issued, an issued
\* one with its payload replaced, one signed with another secret, or text
ClientTokens ==
    LET known == {t.payload : t \in issued} IN
    issued
    \cup UNION {{Tamper(t, p) : p \in known \ {t.payload}} : t \in issued}
    \cup UNION {{Tamper(t, [t.payload EXCEPT !.email = e]) :
                    e \in Emails \ {t.payload.email}} : t \in issued}
    \cup {sign(p, OtherSecret) : p \in known}
    \cup {Garbage}

Headers ==
    {<<>>, <<Bearer>>, <<Bearer, EmptyWord>>}
    \cup {<<Bearer, t>> : t \in ClientTokens}

----------------------------------------------------------------------------
(* Request slots *)

NoBody ==
    [email |-> "", amount |-> 0, description |-> "",
     category |-> undefinedText, user_id |-> undefinedId, id |-> 0]

Idle ==
    [op |-> "none", pc |-> "idle", hdr |-> <<>>, body |-> NoBody,
     user |-> NoPayload, userId |-> "", token |-> NoToken, ai |-> undefinedText,
     category |-> undefinedText, status |-> 0, error |-> "", data |-> <<>>]

Protected == {"expense", "add-expense", "expenses", "delete"}

\* Status of a request whose async handler threw: the handlers have no
\* try/catch, so the promise rejects and the framework, not the handler,
\* decides: no response at all (status stays 0), or the default error
\* handler's 500.
UncaughtOutcomes == {0, 500}

Init ==
    /\ variant \in Variants
    /\ globalCrypto \in (IF variant = "Server" THEN BOOLEAN ELSE {TRUE})
    /\ users = {}
    /\ expenses = {}
    /\ nextId = 1
    /\ nextUuid = 0
    /\ issued = {}
    /\ req = [r \in Slots |-> Idle]
    /\ res = Idle
    /\ started = 0

----------------------------------------------------------------------------
(* The rows and queries the handlers hand to the store client *)

\* a signup that leaves the email out of the token
SignupTokenNoEmail(userId, email) == sign([id |-> userId, email |-> ""], JWT_SECRET)

\* POST /signup: the token the handler signs
SignupToken(userId, email) == sign([id |-> userId, email |-> email], JWT_SECRET)

\* POST /signup: the id the handler sends to the users table.  server.js
\* keeps the UUID it drew; Server.js reads it back from its own token.
SignupUserId(uuid, token) ==
    IF variant = "server" THEN uuid ELSE verify(token, JWT_SECRET).id

\* POST /signup: the row for the users table
UsersRow(userId, email) == [id |-> userId, email |-> email]

\* POST /expense: the category taken from the classifier's first choice
Category(content) == IF variant = "server" THEN trim(content) ELSE content

\* the currency column: a literal in server.js, not sent by Server.js
Currency == IF variant = "server" THEN "INR" ELSE "null"

\* POST /expense: the row for the expenses table
ExpenseRow(user, body, category) ==
    [user_id |-> user.id, amount |-> body.amount,
     description |-> body.description, category |-> category,
     currency |-> Currency]

\* a manual insert that ignores the body's user_id
ManualRowOwn(user, body) ==
    [user_id |-> user.id,
     amount |-> body.amount,
     description |-> body.description,
     category |-> IF TruthyText(body.category) THEN body.category ELSE Other,
     currency |-> Currency]

\* POST /add-expense: the row for the expenses table
ManualRow(user, body) ==
    [user_id |-> IF TruthyId(body.user_id) THEN body.user_id ELSE user.id,
     amount |-> body.amount,
     description |-> body.description,
     category |-> IF TruthyText(body.category) THEN body.category ELSE Other,
     currency |-> Currency]

\* the store completes a row with its own id and created_at (a reading of
\* the store's clock, which the server does not control)
Stored(row, id, at) ==
    [id |-> id, user_id |-> row.user_id, amount |-> row.amount,
     description |-> row.description, category |-> row.category,
     currency |-> row.currency, created_at |-> at]

\* GET /expenses: .select("*").eq("user_id", req.user.id)
ListFilter(rows, user) == {e \in rows : e.user_id = user.id}

\* a delete without .eq("user_id", req.user.id)
DeleteFilterAnyOwner(rows, id, user) == {e \in rows : e.id = id}

\* a delete without .eq("id", id)
DeleteFilterAnyId(rows, id, user) == {e \in rows : e.user_id = user.id}

\* DELETE /expense/:id: .delete().eq("id", id).eq("user_id", req.user.id)
DeleteFilter(rows, id, user) == {e \in rows : e.id = id /\ e.user_id = user.id}

\* an order with { ascending: true }
Ascending(s) == \A i \in 1..Len(s) - 1 : s[i].created_at <= s[i + 1].created_at

\* .order("created_at", { ascending: false })
Descending(s) == \A i \in 1..Len(s) - 1 : s[i].created_at >= s[i + 1].created_at

\* every answer the store may give for an ordered select of `rows`: rows
\* with equal created_at come in any order
Ordered(rows) ==
    {s \in [1..Cardinality(rows) -> rows] :
        /\ \A e \in rows : \E i \in DOMAIN s : s[i] = e
        /\ Descending(s)}

----------------------------------------------------------------------------
(* auth middleware *)

\* an auth that decodes the token without checking its signature
authDecodeOnly(hdr) ==
    LET token == HeaderToken(hdr) IN
    IF Falsy(token)
    THEN [next |-> FALSE, status |-> 401, error |-> "No token", user |-> NoPayload]
    ELSE [next |-> TRUE, status |-> 0, error |-> "", user |-> token.payload]

auth(hdr) ==
    LET token == HeaderToken(hdr) IN
    IF Falsy(token)
    THEN [next |-> FALSE, status |-> 401, error |-> "No token", user |-> NoPayload]
    ELSE IF verifies(token, JWT_SECRET)
    THEN [next |-> TRUE, status |-> 0, error |-> "", user |-> verify(token, JWT_SECRET)]
    ELSE [next |-> FALSE, status |-> 401, error |-> "Invalid token", user |-> NoPayload]

\* the routes each file registers
RouteExists(op) == op # "add-expense" \/ variant = "server"

\* the bodies (and :id) a client may send with each operation
Bodies(op) ==
    CASE op = "expense" ->
           {[NoBody EXCEPT !.amount = a, !.description = d] :
               a \in Amounts, d \in Descriptions}
      [] op = "add-expense" ->
           {[NoBody EXCEPT !.amount = a, !.description = d,
                           !.category = f.category, !.user_id = f.user_id] :
               a \in Amounts, d \in Descriptions, f \in ManualFields}
      [] op = "delete" -> {[NoBody EXCEPT !.id = i] : i \in 1..MaxExpenses}
      [] OTHER -> {NoBody}

\* res.status(status).json(...) ends request q
Answer(q, status, error, data) ==
    res' = [q EXCEPT !.pc = "done", !.status = status, !.error = error, !.data = data]

\* no response is waiting to be delivered
Quiet == res = Idle

\* one more request arrives
Receive == started < MaxRequests /\ started' = started + 1

server == <<variant, globalCrypto>>
store == <<users, expenses, nextId>>

----------------------------------------------------------------------------
(* POST /signup *)

Signup(r, email) ==
    /\ Quiet /\ Receive /\ req[r].pc = "idle"
    /\ nextUuid < MaxUsers
    /\ variant = "server" \/ globalCrypto
    /\ LET uuid == Uuid(nextUuid + 1)
           token == SignupToken(uuid, email)
       IN  req' = [req EXCEPT ![r] =
                     [Idle EXCEPT !.op = "signup", !.pc = "store",
                                  !.body = [NoBody EXCEPT !.email = email],
                                  !.token = token,
                                  !.userId = SignupUserId(uuid, token)]]
    /\ nextUuid' = nextUuid + 1
    /\ UNCHANGED <<server, store, issued, res>>

\* Server.js does not import crypto: where the runtime has no global of
\* that name, crypto.randomUUID() throws before anything else happens
SignupThrows(email) ==
    /\ Quiet /\ Receive
    /\ variant = "Server" /\ ~globalCrypto
    /\ \E s \in UncaughtOutcomes :
         Answer([Idle EXCEPT !.op = "signup",
                             !.body = [NoBody EXCEPT !.email = email]],
                s, "uncaught", <<>>)
    /\ UNCHANGED <<server, store, nextUuid, issued, req>>

\* await supabase.from("users").insert(...): the result is not looked at,
\* and the token is returned
UsersInsert(r, ok) ==
    /\ Quiet /\ req[r].pc = "store" /\ req[r].op = "signup"
    /\ users' = IF ok
               THEN users \cup {UsersRow(req[r].userId, req[r].body.email)}
               ELSE users
    /\ Answer(req[r], 200, "", <<>>)
    /\ req' = [req EXCEPT ![r] = Idle]
    /\ UNCHANGED <<server, expenses, nextId, nextUuid, issued, started>>

----------------------------------------------------------------------------
(* The protected routes *)

\* a request to a path the deployed file has no route for (its body is
\* not read)
NoRoute(op, hdr) ==
    /\ Quiet /\ Receive
    /\ ~RouteExists(op)
    /\ Answer([Idle EXCEPT !.op = op, !.hdr = hdr], 404, "", <<>>)
    /\ UNCHANGED <<server, store, nextUuid, issued, req>>

\* auth answers 401 and next() is not called (the body is not read)
AuthRejects(op, hdr) ==
    /\ Quiet /\ Receive
    /\ RouteExists(op)
    /\ ~auth(hdr).next
    /\ Answer([Idle EXCEPT !.op = op, !.hdr = hdr],
              auth(hdr).status, auth(hdr).error, <<>>)
    /\ UNCHANGED <<server, store, nextUuid, issued, req>>

\* auth sets req.user and calls next(): the handler runs up to its first
\* await, the classifier call of POST /expense or the store call of the rest
Begin(r, op, hdr, body) ==
    /\ Quiet /\ Receive /\ req[r].pc = "idle"
    /\ RouteExists(op)
    /\ auth(hdr).next
    /\ req' = [req EXCEPT ![r] =
                 [Idle EXCEPT !.op = op, !.hdr = hdr, !.body = body,
                              !.user = auth(hdr).user,
                              !.pc = IF op = "expense" THEN "classify" ELSE "store"]]
    /\ UNCHANGED <<server, store, nextUuid, issued, res>>

\* the classifier answers; the handler takes the category and issues the insert
ClassifierResponds(r, content) ==
    /\ Quiet /\ req[r].pc = "classify"
    /\ req' = [req EXCEPT ![r].ai = content, ![r].category = Category(content),
                          ![r].pc = "store"]
    /\ UNCHANGED <<server, store, nextUuid, issued, res, started>>

\* the classifier call rejects; nothing catches it
ClassifierFails(r) ==
    /\ Quiet /\ req[r].pc = "classify"
    /\ \E s \in UncaughtOutcomes : Answer(req[r], s, "uncaught", <<>>)
    /\ req' = [req EXCEPT ![r] = Idle]
    /\ UNCHANGED <<server, store, nextUuid, issued, started>>

\* the row a handler inserts
InsertRow(q) ==
    IF q.op = "expense" THEN ExpenseRow(q.user, q.body, q.category)
    ELSE ManualRow(q.user, q.body)

\* the store carries out the insert and the handler answers.  POST /expense
\* asks for the row back (.select("*").single()); POST /add-expense does not.
ExpensesInsert(r, at) ==
    /\ Quiet /\ req[r].pc = "store" /\ req[r].op \in {"expense", "add-expense"}
    /\ nextId <= MaxExpenses
    /\ LET row == Stored(InsertRow(req[r]), nextId, at) IN
         /\ expenses' = expenses \cup {row}
         /\ Answer(req[r], 200, "", IF req[r].op = "expense" THEN <<row>> ELSE <<>>)
    /\ nextId' = nextId + 1
    /\ req' = [req EXCEPT ![r] = Idle]
    /\ UNCHANGED <<server, users, nextUuid, issued, started>>

\* the store answers with an error: if (error) return res.status(400)
StoreFails(r) ==
    /\ Quiet /\ req[r].pc = "store" /\ req[r].op \in Protected
    /\ Answer(req[r], 400, "store", <<>>)
    /\ req' = [req EXCEPT ![r] = Idle]
    /\ UNCHANGED <<server, store, nextUuid, issued, started>>

\* GET /expenses
ExpensesSelect(r) ==
    /\ Quiet /\ req[r].pc = "store" /\ req[r].op = "expenses"
    /\ \E s \in Ordered(ListFilter(expenses, req[r].user)) : Answer(req[r], 200, "", s)
    /\ req' = [req EXCEPT ![r] = Idle]
    /\ UNCHANGED <<server, store, nextUuid, issued, started>>

\* DELETE /expense/:id
ExpensesDelete(r) ==
    /\ Quiet /\ req[r].pc = "store" /\ req[r].op = "delete"
    /\ expenses' = expenses \ DeleteFilter(expenses, req[r].body.id, req[r].user)
    /\ Answer(req[r], 200, "", <<>>)
    /\ req' = [req EXCEPT ![r] = Idle]
    /\ UNCHANGED <<server, users, nextId, nextUuid, issued, started>>

\* the response reaches its client; a signup's 200 carries the token
Deliver ==
    /\ ~Quiet
    /\ res' = Idle
    /\ issued' = IF res.op = "signup" /\ res.status = 200
                 THEN issued \cup {res.token}
                 ELSE issued
    /\ UNCHANGED <<server, store, nextUuid, req, started>>

\* the tokens clients were issued, and no header at all
HeldHeaders == {<<>>} \cup {<<Bearer, t>> : t \in issued}

\* the steps of the system when requests use the slots `slots`, signups
\* the emails `emails`, the users table answers an insert with one of `oks`,
\* clients send the Authorization headers `hdrs`, the classifier answers
\* with one of `texts` and the store stamps rows with one of `ats`
Step(slots, emails, oks, hdrs, texts, ats) ==
    \/ \E r \in slots, email \in emails : Signup(r, email)
    \/ \E email \in emails : SignupThrows(email)
    \/ \E r \in slots, ok \in oks : UsersInsert(r, ok)
    \/ \E op \in Protected, hdr \in hdrs : NoRoute(op, hdr)
    \/ \E op \in Protected, hdr \in hdrs : AuthRejects(op, hdr)
    \/ \E r \in slots, op \in Protected, hdr \in hdrs :
         \E body \in Bodies(op) : Begin(r, op, hdr, body)
    \/ \E r \in slots, content \in texts : ClassifierResponds(r, content)
    \/ \E r \in slots : ClassifierFails(r)
    \/ \E r \in slots, at \in ats : ExpensesInsert(r, at)
    \/ \E r \in slots : StoreFails(r)
    \/ \E r \in slots : ExpensesSelect(r)
    \/ \E r \in slots : ExpensesDelete(r)
    \/ Deliver

\* the expense workflow: concurrent requests of clients that send a token
\* they hold or no header, every classifier text and every stamp
Next == Step(Slots, {"a@x.com"}, {TRUE}, HeldHeaders, ClassifierTexts, 1..MaxClock)

Spec == Init /\ [][Next]_vars

\* the auth gate: one request at a time, with every header a client can
\* make up
NextAuth == Step({"r1"}, {"a@x.com"}, {TRUE}, Headers, {Food}, {1})

SpecAuth == Init /\ [][NextAuth]_vars

\* signup: one request at a time, with every email and a users table that
\* may refuse the insert
NextSignup == Step({"r1"}, Emails, BOOLEAN, HeldHeaders, {Food}, {1})

SpecSignup == Init /\ [][NextSignup]_vars

----------------------------------------------------------------------------
(* Properties *)

Range(f) == {f[i] : i \in DOMAIN f}

\* the store carries out the call of request r, a request to `op`
StoreStep(r, op) ==
    req[r].op = op /\ req[r].pc = "store" /\ req'[r].pc = "idle"

\* the row the store added last
Newest == CHOOSE e \in expenses : e.id = nextId - 1

\* C1: an expense of user A never appears in an answer to GET /expenses by
\* another user B, and a DELETE /expense/:id by B, whatever id it names and
\* however the requests interleave, leaves every expense of A in the store
\* as it was.
C1_Isolation ==
    [][/\ (res'.pc = "done" /\ res'.op = "expenses") =>
             \A i \in DOMAIN res'.data : res'.data[i].user_id = res'.user.id
       /\ \A r \in Slots :
             StoreStep(r, "delete") =>
                \A e \in expenses : e.user_id # req[r].user.id => e \in expenses'
      ]_vars

\* B's DELETE of an id that belongs to A's expense was answered, while
\* another request was in flight, and the expense is still there
C1_Witness ==
    /\ res.pc = "done" /\ res.op = "delete" /\ res.status = 200
    /\ \E e \in expenses : e.id = res.body.id /\ e.user_id # res.user.id
    /\ \E r \in Slots : req[r].pc # "idle"

\* C2: every row that a protected operation reads, inserts or deletes has
\* the user_id of the identity decoded from the caller's token.
C2_OnlyOwnRows ==
    [][\A r \in Slots :
          (req[r].op \in Protected /\ req[r].pc = "store" /\ req'[r].pc = "idle") =>
             \A e \in (expenses' \ expenses) \cup (expenses \ expenses')
                        \cup Range(res'.data) :
                e.user_id = req[r].user.id
      ]_vars

\* C3: the token a signup returns verifies under the secret and yields the
\* id generated in that signup and the email of its body; the id sent to the
\* users table is that id; and every token issued keeps verifying, so that
\* each later request that carries it runs as the identity it was issued for.
C3_TokenRoundTrip ==
    /\ (res.pc = "done" /\ res.op = "signup" /\ res.status = 200) =>
          /\ res.token.sig.key = JWT_SECRET
          /\ res.token.sig.over = res.token.payload
          /\ res.token.payload = [id |-> Uuid(nextUuid), email |-> res.body.email]
          /\ res.userId = Uuid(nextUuid)
    /\ \A u \in users :
          \E t \in issued \cup {res.token} : t.payload = [id |-> u.id, email |-> u.email]
    /\ \A t \in issued : auth(<<Bearer, t>>).next /\ t.payload.id \in UserIds
    /\ \A t1, t2 \in issued : t1.payload.id = t2.payload.id => t1 = t2
    /\ \A r \in Slots :
          (req[r].pc # "idle" /\ req[r].op \in Protected) =>
             \E t \in issued : req[r].hdr = <<Bearer, t>> /\ req[r].user = t.payload

\* a request runs under the token of the first signup after a second signup
\* was answered with another email
C3_Witness ==
    /\ Cardinality(issued) = 2
    /\ \E t1, t2 \in issued : t1.payload.email # t2.payload.email
    /\ \E r \in Slots :
          /\ req[r].pc = "store" /\ req[r].op = "expenses"
          /\ req[r].user.id = Uuid(1)

\* C4: a request to a protected route without a token is answered 401 "No
\* token", one with a token that signup did not issue (another secret, a
\* replaced payload, no JWT at all) is answered 401 "Invalid token"; the step
\* that answers 401 changes neither the store nor any request in flight, and
\* no handler is ever running for a request without an issued token.
C4_AuthGate ==
    [][/\ (res'.pc = "done" /\ res'.op \in Protected /\ RouteExists(res'.op)) =>
             LET token == IF Len(res'.hdr) >= 2 THEN res'.hdr[2] ELSE NoToken IN
             /\ token \in {NoToken, EmptyWord} =>
                   res'.status = 401 /\ res'.error = "No token"
             /\ token \notin {NoToken, EmptyWord} \cup issued =>
                   res'.status = 401 /\ res'.error = "Invalid token"
       /\ (res'.pc = "done" /\ res'.status = 401) =>
             UNCHANGED <<users, expenses, nextId, nextUuid, issued, req>>
       /\ \A r \in Slots :
             (req'[r].pc # "idle" /\ req'[r].op \in Protected) =>
                Len(req'[r].hdr) = 2 /\ req'[r].hdr[2] \in issued
      ]_vars

\* a token of an issued identity with its payload replaced was refused
C4_Witness ==
    /\ res.pc = "done" /\ res.status = 401 /\ res.error = "Invalid token"
    /\ Len(res.hdr) = 2
    /\ res.hdr[2].sig.key = JWT_SECRET
    /\ res.hdr[2].payload # res.hdr[2].sig.over
    /\ users # {}

\* C5: POST /expense inserts, after the classifier has answered C, one row
\* with the caller's id, the amount and description of the body and the
\* category C trimmed of surrounding whitespace.
C5_TrimmedCategory ==
    (res.pc = "done" /\ res.op = "expense" /\ res.status = 200) =>
       /\ res.ai \in ClassifierTexts
       /\ Len(res.data) = 1 /\ res.data[1] \in expenses
       /\ res.data[1].user_id = res.user.id
       /\ res.data[1].amount = res.body.amount
       /\ res.data[1].description = res.body.description
       /\ res.data[1].category = trim(res.ai)

\* C6: when the classifier call of POST /expense fails, the request is
\* answered 400 with {error} and no row is inserted.
C6_ClassifierFailureIs400 ==
    [][\A r \in Slots :
          (req[r].pc = "classify" /\ req'[r].pc = "idle") =>
             res'.status = 400 /\ expenses' = expenses
      ]_vars

\* C7: a signup returns a token only for an identity that the users table
\* holds.
C7_TokenOnlyIfRegistered ==
    (res.pc = "done" /\ res.op = "signup" /\ res.status = 200) =>
       [id |-> res.token.payload.id, email |-> res.token.payload.email] \in users

\* C8: a successful GET /expenses returns each stored expense of the caller
\* once and nothing else, in non-increasing created_at order; for a caller
\* without expenses that is the empty sequence.
C8_ListExactAndOrdered ==
    (res.pc = "done" /\ res.op = "expenses" /\ res.status = 200) =>
       /\ Range(res.data) = {e \in expenses : e.user_id = res.user.id}
       /\ Len(res.data) = Cardinality(Range(res.data))
       /\ \A i, j \in DOMAIN res.data :
             i < j => res.data[i].created_at >= res.data[j].created_at

\* a list of two expenses stamped at different times
C8_Witness ==
    /\ res.pc = "done" /\ res.op = "expenses" /\ res.status = 200
    /\ Len(res.data) = 2
    /\ res.data[1].created_at > res.data[2].created_at
    /\ res.data[1].id < res.data[2].id

\* C9: the store's step of a DELETE /expense/:id removes the row with that
\* id and the caller's user_id if there is one, at most one row, and changes
\* nothing else; the answer is the success message whether or not a row was
\* removed; afterwards no row of the caller has the id, so a repeated delete
\* changes nothing.
C9_DeleteFrame ==
    [][\A r \in Slots :
          StoreStep(r, "delete") =>
             LET mine == {e \in expenses :
                             e.id = req[r].body.id /\ e.user_id = req[r].user.id}
             IN  \/ /\ res'.status = 200 /\ res'.error = ""
                    /\ expenses' = expenses \ mine
                    /\ Cardinality(expenses \ expenses') <= 1
                    /\ \A e \in expenses' :
                          ~(e.id = req[r].body.id /\ e.user_id = req[r].user.id)
                    /\ UNCHANGED <<users, nextId>>
                 \/ /\ res'.status = 400
                    /\ UNCHANGED <<users, expenses, nextId>>
      ]_vars

\* the owner's delete removed a row and left the owner's other row
C9_Witness ==
    /\ res.pc = "done" /\ res.op = "delete" /\ res.status = 200
    /\ res.body.id < nextId
    /\ \A e \in expenses : e.id # res.body.id
    /\ \E e \in expenses : e.user_id = res.user.id

\* C10 as stated: POST /add-expense inserts a row with the body's user_id
\* when the body has one and the caller's id otherwise, and with the body's
\* category when the body has one and "Other" otherwise.
C10_SuppliedFieldsUsed ==
    (res.pc = "done" /\ res.op = "add-expense" /\ res.status = 200) =>
       /\ Newest.user_id = IF res.body.user_id # undefinedId
                           THEN res.body.user_id ELSE res.user.id
       /\ Newest.category = IF res.body.category # undefinedText
                            THEN res.body.category ELSE Other

\* C10 amended: POST /add-expense never calls the classifier and inserts one
\* row with the body's user_id when that is a non-empty value (also when it
\* is another user's id) and the caller's id otherwise, and with the body's
\* category when that is a non-empty value and "Other" otherwise; a row
\* written under another user's id is among the rows GET /expenses selects
\* for that user and not among those it selects for the caller.
C10_ManualInsert ==
    /\ \A r \in Slots : req[r].op = "add-expense" => req[r].pc # "classify"
    /\ (res.pc = "done" /\ res.op = "add-expense" /\ res.status = 200) =>
          /\ res.ai = undefinedText
          /\ Newest \in expenses
          /\ Newest.user_id = IF res.body.user_id \notin {undefinedId, emptyId}
                              THEN res.body.user_id ELSE res.user.id
          /\ Newest.category = IF res.body.category \notin {undefinedText, emptyText}
                               THEN res.body.category ELSE Other
          /\ Newest.amount = res.body.amount
          /\ Newest.description = res.body.description
          /\ Newest \in ListFilter(expenses, [id |-> Newest.user_id, email |-> ""])
          /\ Newest.user_id # res.user.id => Newest \notin ListFilter(expenses, res.user)

\* a caller wrote a row under the id of another user who has signed up
C10_Witness ==
    /\ res.pc = "done" /\ res.op = "add-expense" /\ res.status = 200
    /\ res.body.user_id # res.user.id
    /\ Newest.user_id = res.body.user_id
    /\ \E t \in issued : t.payload.id = res.body.user_id

====
